---------------------------- MODULE Spec2Model ----------------------------
(***************************************************************************)
(* Model of the signal-automation service: the chat delivery channel with  *)
(* bounded retries (services/signal_service.py), the message handler with  *)
(* the affiliate and credential conversations and the order notifier       *)
(* (services/message_handler.py), the persistence calls they make          *)
(* (services/database_service.py) and the poll loop (main.py).             *)
(***************************************************************************)
EXTENDS Integers, Sequences, FiniteSets, TLC

VARIABLES
    op_call,       \* one call of an operation examined on its own: inputs and result
    sm,            \* one send_message call: its inputs and, once made, its result
    pc,            \* position of the single thread of run_main_loop
    shutdown,      \* shutdown_event.is_set()
    inbox,         \* messages of the received batch not yet fully handled
    batch,         \* orders of the fetched batch not yet fully handled
    affiliates,    \* rows of table affiliates
    notified,      \* orders.notified, per order id
    reg_state,     \* MessageHandler.api_key_registration_state
    temp_data,     \* MessageHandler.api_key_temp_data
    tok,           \* local variable token of the running handler
    log,           \* external calls made by the running handler, in order
    prev,          \* summary of the previously handled message, where tracked
    ownerDelivered \* orders whose owner notification the transport accepted

vars == <<op_call, sm, pc, shutdown, inbox, batch, affiliates, notified, reg_state,
          temp_data, tok, log, prev, ownerDelivered>>

-----------------------------------------------------------------------------
(* Bounds *)

MaxN == 3          \* largest max_retries explored for a single send_message call
MaxBatch == 2      \* largest number of messages one receive returns
NumOrders == 2     \* orders in table orders
NumTokens == 2     \* size of the range of generate_token
MaxLines == 3      \* largest number of output lines of one receive

(* Program constants *)

MAX_RETRIES == 3
WEBHOOK_RETRIES == 3

-----------------------------------------------------------------------------
(* services/signal_service.py *)

None == "None"     \* Python None where a string is expected
NoNum == -1        \* Python None where a number is expected

\* what one subprocess.run of the transport can do
Outcomes == {"exit0", "nonzero", "timeout", "exception"}

Pow2(n) == 2 ^ n

RECURSIVE send_attempts_nostop(_, _, _, _, _)
send_attempts_nostop(N, outs, attempt, invocations, waits) ==
    IF attempt >= N
    THEN [ret |-> \E i \in 1..N : outs[i] = "exit0",
          invocations |-> invocations, waits |-> waits, raised |-> FALSE]
    ELSE send_attempts_nostop(N, outs, attempt + 1, invocations + 1,
                              IF attempt < N - 1 /\ outs[attempt + 1] # "exit0"
                              THEN Append(waits, Pow2(attempt)) ELSE waits)

\* the loop with the wait taken after every failed attempt, the last included
RECURSIVE send_attempts_waitlast(_, _, _, _, _)
send_attempts_waitlast(N, outs, attempt, invocations, waits) ==
    IF attempt >= N
    THEN [ret |-> FALSE, invocations |-> invocations, waits |-> waits,
          raised |-> FALSE]
    ELSE IF outs[attempt + 1] = "exit0"
    THEN [ret |-> TRUE, invocations |-> invocations + 1, waits |-> waits,
          raised |-> FALSE]
    ELSE send_attempts_waitlast(N, outs, attempt + 1, invocations + 1,
                                Append(waits, Pow2(attempt)))

\* the loop "for attempt in range(self.max_retries)" from iteration attempt on
RECURSIVE send_attempts(_, _, _, _, _)
send_attempts(N, outs, attempt, invocations, waits) ==
    IF attempt >= N
    THEN \* all attempts failed
         [ret |-> FALSE, invocations |-> invocations, waits |-> waits,
          raised |-> FALSE]
    ELSE IF outs[attempt + 1] = "exit0"
    THEN \* returncode == 0: return True
         [ret |-> TRUE, invocations |-> invocations + 1, waits |-> waits,
          raised |-> FALSE]
    ELSE \* non-zero exit is logged, TimeoutExpired and Exception are caught
         send_attempts(N, outs, attempt + 1, invocations + 1,
                       IF attempt < N - 1
                       THEN Append(waits, Pow2(attempt)) ELSE waits)

send_message(N, outs) == send_attempts(N, outs, 0, 0, <<>>)

\* every pattern of transport outcomes a call with max_retries = N can meet
SendPatterns(N) == [1..N -> Outcomes]

-----------------------------------------------------------------------------
(* config/settings.py, utils/helpers.py, models *)

Admin == "admin"
Group == "group"
Senders == {Admin, "s1"}

\* range of generate_token; UnknownToken is a token value it never returns
Tokens == 1..NumTokens
UnknownToken == 0

\* str.strip() and str.lower() on the characters the bodies below use
LowerChar(c) ==
    CASE c = "G" -> "g" [] c = "O" -> "o" [] c = "N" -> "n"
      [] c = "A" -> "a" [] c = "P" -> "p" [] c = "I" -> "i"
      [] c = "K" -> "k" [] OTHER -> c

lower(s) == [i \in 1..Len(s) |-> LowerChar(s[i])]

RECURSIVE lstrip(_)
lstrip(s) == IF s # <<>> /\ Head(s) = " " THEN lstrip(Tail(s)) ELSE s

RECURSIVE rstrip(_)
rstrip(s) ==
    IF s # <<>> /\ s[Len(s)] = " " THEN rstrip(SubSeq(s, 1, Len(s) - 1)) ELSE s

strip(s) == rstrip(lstrip(s))

go == <<"g", "o">>

\* a dataMessage.message that is not a string (JSON null, a number, list or
\* object): it has no strip()
NotText == <<"#">>

NewApiKey == <<"N", "e", "w", " ", "A", "P", "I", " ", "k", "e", "y">>

\* message texts the transport delivers
Bodies ==
    { <<"g", "o">>,
      <<" ", "G", "O">>,
      NewApiKey,
      <<"n", "e", "w", " ", "a", "p", "i", " ", "k", "e", "y">>,
      <<"K", "1">>,
      <<" ">>,
      NotText }

\* a parsed envelope: its source, whether it has a dataMessage, and the
\* message of that dataMessage
Messages ==
    [source : Senders, data : {TRUE}, message : Bodies]
        \cup [source : Senders, data : {FALSE}, message : {<<>>}]

RECURSIVE SeqsUpTo(_, _)
SeqsUpTo(S, n) ==
    IF n = 0 THEN {<<>>}
    ELSE LET shorter == SeqsUpTo(S, n - 1)
         IN shorter \cup {Append(q, x) : q \in {r \in shorter : Len(r) = n - 1}, x \in S}

-----------------------------------------------------------------------------
(* services/database_service.py *)

\* a query succeeds, raises mysql.connector.Error, or raises something else
DbOutcomes == {"ok", "error", "exc"}

\* TemplateManager.format_message returns a string, or get_template raises
FormatOutcomes == {"ok", "exc"}

Orders == 1..NumOrders

\* table orders without the notified column: order 1 carries token 1,
\* order 2 no token, any further order a token no affiliate has
orders_table ==
    [o \in Orders |->
        [id |-> o,
         affiliate_token |-> IF o = 1 THEN 1 ELSE IF o = 2 THEN NoNum ELSE UnknownToken,
         created_at |-> NumOrders + 1 - o]]

\* the table affiliates the service starts on: empty, or one deactivated row
InitialAffiliates ==
    { {}, {[phone_number |-> "s1", token |-> 1, is_active |-> FALSE]} }

\* every content of table affiliates its unique keys allow
Rows == [phone_number : Senders, token : Tokens, is_active : BOOLEAN]
ValidTables ==
    {T \in SUBSET Rows :
        \A r1, r2 \in T :
            (r1.phone_number = r2.phone_number \/ r1.token = r2.token) => r1 = r2}

\* SELECT * FROM affiliates WHERE phone_number = %s AND is_active = TRUE
ByPhoneNoFilter(rows, phone) ==
    {r \in rows : r.is_active}

ByPhone(rows, phone) ==
    {r \in rows : r.phone_number = phone /\ r.is_active}

\* SELECT * FROM affiliates WHERE token = %s AND is_active = TRUE
ByToken(rows, token) ==
    {r \in rows : r.token = token /\ r.is_active}

\* the unique keys of table affiliates: phone_number and token
UniqueViolation(rows, phone, token) ==
    \E r \in rows : r.phone_number = phone \/ r.token = token

\* SELECT * FROM orders WHERE notified = FALSE ORDER BY created_at ASC
RECURSIVE SortById(_)
SortById(S) ==
    IF S = {} THEN <<>>
    ELSE LET first == CHOOSE o \in S : \A p \in S : o <= p
         IN <<first>> \o SortById(S \ {first})

RECURSIVE SortByCreated(_)
SortByCreated(S) ==
    IF S = {} THEN <<>>
    ELSE LET first == CHOOSE o \in S :
                          \A p \in S : orders_table[o].created_at <= orders_table[p].created_at
         IN <<first>> \o SortByCreated(S \ {first})

\* SELECT ... FROM orders without the condition on notified
AllOrders(flags) == Orders

\* WHERE notified = FALSE
Unnotified(flags) == {o \in Orders : ~flags[o]}

get_unnotified_orders(flags) == SortByCreated(Unnotified(flags))

-----------------------------------------------------------------------------
(* Trace of the running handler *)

\* op "send": who = recipient, what = message kind, n = token or order id
\*           in the text, res = "sent" or "failed" (send_message's boolean)
\* op "db":   who = method, what = phone number argument, n = token, order
\*           id or key id (argument, or value returned by save_api_key),
\*           res = outcome of the query
\* op "alert": who = category, what = context, n = order id
Ev(op, who, what, n, res) ==
    [op |-> op, who |-> who, what |-> what, n |-> n, res |-> res]

Sent(ok) == IF ok THEN "sent" ELSE "failed"

\* positions of the events of one kind in a trace
Events(trace, op) == {i \in 1..Len(trace) : trace[i].op = op}

\* the values send_message can return to a caller
SendResults == {send_message(MAX_RETRIES, outs).ret : outs \in SendPatterns(MAX_RETRIES)}

\* AlertService.alert_critical_error / alert_database_error
\* an exception raised by get_template inside format_message
format_raised == Ev("raise", "format_message", None, NoNum, "exc")

logged_only(ctx, n) == Ev("log", "critical", ctx, n, "raised")

alert_critical_error(ctx, n) == Ev("alert", "critical", ctx, n, "raised")

\* an exception raised by a statement that is not a call of a collaborator
raise_in(where) == Ev("raise", where, None, NoNum, "exc")
alert_database_error(ctx) == Ev("alert", "database", ctx, NoNum, "raised")

-----------------------------------------------------------------------------
(* Initial state: services constructed, run_main_loop about to start *)

\* Python dicts: functions whose domain is the set of keys
Empty == [k \in {} |-> None]
Set(dict, k, v) == [x \in DOMAIN dict \cup {k} |-> IF x = k THEN v ELSE dict[x]]
PopNothing(dict, k) == dict
Pop(dict, k) == [x \in DOMAIN dict \ {k} |-> dict[x]]

NoSummary == [source |-> None, log |-> <<>>]

NoResult == [ret |-> FALSE, invocations |-> 0, waits |-> <<>>, raised |-> FALSE]
NoSend == [N |-> 0, outs |-> <<>>, done |-> FALSE, res |-> NoResult]
NoCall == [op |-> None, done |-> FALSE]

Init ==
    /\ op_call = NoCall
    /\ sm = NoSend
    /\ pc = "loop"
    /\ shutdown = FALSE
    /\ inbox = <<>>
    /\ batch = <<>>
    /\ affiliates \in InitialAffiliates
    /\ notified = [o \in Orders |-> FALSE]
    /\ reg_state = Empty
    /\ temp_data = Empty
    /\ tok = NoNum
    /\ log = <<>>
    /\ prev = NoSummary
    /\ ownerDelivered = {}

-----------------------------------------------------------------------------
(* main.py: run_main_loop and the signal handler *)

\* signal_handler: SIGTERM or SIGINT sets the shutdown event
signal_handler ==
    /\ pc # "stopped"
    /\ ~shutdown
    /\ shutdown' = TRUE
    /\ UNCHANGED <<op_call, sm, pc, inbox, batch, affiliates, notified, reg_state,
                   temp_data, tok, log, prev, ownerDelivered>>

\* while not self.shutdown_event.is_set()
LoopCheckNoStop ==
    /\ pc = "loop"
    /\ pc' = "receive"
    /\ UNCHANGED <<op_call, sm, shutdown, inbox, batch, affiliates, notified, reg_state,
                   temp_data, tok, log, prev, ownerDelivered>>

LoopCheck ==
    /\ pc = "loop"
    /\ pc' = IF shutdown THEN "stopped" ELSE "receive"
    /\ UNCHANGED <<op_call, sm, shutdown, inbox, batch, affiliates, notified, reg_state,
                   temp_data, tok, log, prev, ownerDelivered>>

\* messages = receive_messages(); if messages: process_received_messages
\* (a failed receive returns the empty list)
ReceiveSkipsOrders(batches) ==
    /\ pc = "receive"
    /\ \E msgs \in batches :
          /\ inbox' = msgs
          /\ pc' = IF msgs # <<>> THEN "msg" ELSE "wait"
    /\ UNCHANGED <<op_call, sm, shutdown, batch, affiliates, notified, reg_state,
                   temp_data, tok, log, prev, ownerDelivered>>

Receive(batches) ==
    /\ pc = "receive"
    /\ \E msgs \in batches :
          /\ inbox' = msgs
          /\ pc' = IF msgs # <<>> THEN "msg" ELSE "fetch"
    /\ UNCHANGED <<op_call, sm, shutdown, batch, affiliates, notified, reg_state,
                   temp_data, tok, log, prev, ownerDelivered>>

receive_messages == Receive(SeqsUpTo(Messages, MaxBatch))

\* the same call when the transport has nothing to deliver
ReceiveNothing == Receive({<<>>})

\* the last statement of the try body returns, or raises: it is the only
\* statement of the iteration outside the handlers of the calls made
WaitOutcomes == {"ok", "exc"}

\* self.shutdown_event.wait(settings.POLL_INTERVAL_SECONDS)
Wait ==
    /\ pc = "wait"
    /\ \E r \in WaitOutcomes :
          /\ pc' = IF r = "ok" THEN "loop" ELSE "loop_except"
          /\ log' = IF r = "ok" THEN <<>> ELSE <<raise_in("run_main_loop")>>
    /\ UNCHANGED <<op_call, sm, shutdown, inbox, batch, affiliates, notified, reg_state,
                   temp_data, tok, prev, ownerDelivered>>

\* except Exception: alert_critical_error("Main loop error")
LoopExceptBreak ==
    /\ pc = "loop_except"
    /\ log' = Append(log, alert_critical_error("main_loop", NoNum))
    /\ pc' = "stopped"
    /\ UNCHANGED <<op_call, sm, shutdown, inbox, batch, affiliates, notified, reg_state,
                   temp_data, tok, prev, ownerDelivered>>

LoopExcept ==
    /\ pc = "loop_except"
    /\ log' = Append(log, alert_critical_error("main_loop", NoNum))
    /\ pc' = "cooldown"
    /\ UNCHANGED <<op_call, sm, shutdown, inbox, batch, affiliates, notified, reg_state,
                   temp_data, tok, prev, ownerDelivered>>

\* self.shutdown_event.wait(5), then the next test of the while condition
Cooldown ==
    /\ pc = "cooldown"
    /\ pc' = "loop"
    /\ log' = <<>>
    /\ UNCHANGED <<op_call, sm, shutdown, inbox, batch, affiliates, notified, reg_state,
                   temp_data, tok, prev, ownerDelivered>>

-----------------------------------------------------------------------------
(* services/message_handler.py: messages *)

Sender == Head(inbox).source
Body == strip(Head(inbox).message)

\* a text as the one string handed to a persistence write
RECURSIVE Str(_)
Str(s) == IF s = <<>> THEN "" ELSE Head(s) \o Str(Tail(s))

\* the branch _process_single_message takes for envelope m
classify_nogo(m, states) ==
    IF ~m.data THEN "msg_done"
    ELSE IF m.message = NotText THEN "msg_raise"
    ELSE LET body == strip(m.message) IN
         IF body = <<>> THEN "msg_done"
         ELSE IF body = NewApiKey /\ m.source = Admin THEN "key_start"
         ELSE IF m.source \in DOMAIN states THEN "key_step"
         ELSE IF lower(body) = go THEN "aff_lookup"
         ELSE "msg_done"

classify_anyone(m, states) ==
    IF ~m.data THEN "msg_done"
    ELSE IF m.message = NotText THEN "msg_raise"
    ELSE LET body == strip(m.message) IN
         IF body = <<>> THEN "msg_done"
         ELSE IF lower(body) = go THEN "aff_lookup"
         ELSE IF body = NewApiKey THEN "key_start"
         ELSE IF m.source \in DOMAIN states THEN "key_step"
         ELSE "msg_done"

\* the branch taken when the command of the admin is matched in any letter case
classify_lowerstart(m, states) ==
    IF ~m.data THEN "msg_done"
    ELSE IF m.message = NotText THEN "msg_raise"
    ELSE LET body == strip(m.message) IN
         IF body = <<>> THEN "msg_done"
         ELSE IF lower(body) = go THEN "aff_lookup"
         ELSE IF lower(body) = lower(NewApiKey) /\ m.source = Admin THEN "key_start"
         ELSE IF m.source \in DOMAIN states THEN "key_step"
         ELSE "msg_done"

classify(m, states) ==
    IF ~m.data THEN "msg_done"
    ELSE IF m.message = NotText THEN "msg_raise"
    ELSE LET body == strip(m.message) IN
         IF body = <<>> THEN "msg_done"
         ELSE IF lower(body) = go THEN "aff_lookup"
         ELSE IF body = NewApiKey /\ m.source = Admin THEN "key_start"
         ELSE IF m.source \in DOMAIN states THEN "key_step"
         ELSE "msg_done"

_process_single_message ==
    /\ pc = "msg"
    /\ pc' = classify(Head(inbox), reg_state)
    /\ log' = <<>>
    /\ tok' = NoNum
    /\ UNCHANGED <<op_call, sm, shutdown, inbox, batch, affiliates, notified, reg_state,
                   temp_data, prev, ownerDelivered>>

\* process_received_messages: the handler of an exception that left
\* _process_single_message
MsgExcept ==
    /\ pc = "msg_raise"
    /\ log' = <<raise_in("_process_single_message"),
                alert_critical_error("message", NoNum)>>
    /\ pc' = "msg_done"
    /\ UNCHANGED <<op_call, sm, shutdown, inbox, batch, affiliates, notified, reg_state,
                   temp_data, tok, prev, ownerDelivered>>

\* what the next message needs to know of this one: a "go" and its trace
Summary(m, trace) ==
    IF m.data /\ lower(strip(m.message)) = go
    THEN [source |-> m.source, log |-> trace]
    ELSE NoSummary

\* process_received_messages: the for loop moves to the next message
Advance(summary) ==
    /\ pc = "msg_done"
    /\ prev' = summary
    /\ inbox' = Tail(inbox)
    /\ pc' = IF Tail(inbox) # <<>> THEN "msg" ELSE "fetch"
    /\ log' = <<>>
    /\ tok' = NoNum
    /\ UNCHANGED <<op_call, sm, shutdown, batch, affiliates, notified, reg_state,
                   temp_data, ownerDelivered>>

MsgNext == Advance(prev)

\* the same step, remembering the message just handled
MsgNextTracked == Advance(Summary(Head(inbox), log))

\* the same step, remembering every call made for the messages handled so far
MsgNextConversation ==
    Advance([source |-> Head(inbox).source, log |-> prev.log \o log])

\* _handle_affiliate_registration: look the sender up, answer an existing one
AffLookup ==
    /\ pc = "aff_lookup"
    /\ \E d \in DbOutcomes, f \in FormatOutcomes, ok \in SendResults :
          LET found == IF d = "ok" THEN ByPhone(affiliates, Sender) ELSE {}
              call == Ev("db", "get_affiliate_by_phone", Sender, NoNum, d)
          IN
          IF d = "exc"
          THEN /\ log' = log \o <<call, alert_critical_error("affiliate", NoNum)>>
               /\ pc' = "msg_done"
          ELSE IF found # {}
          THEN /\ pc' = "msg_done"
               /\ IF f = "exc"
                  THEN log' = log \o <<call, format_raised,
                                         alert_critical_error("affiliate", NoNum)>>
                  ELSE log' = log \o <<call,
                           Ev("send", Sender, "affiliate_already_registered",
                              (CHOOSE r \in found : TRUE).token, Sent(ok))>>
          ELSE /\ pc' = "aff_create"
               /\ log' = Append(log, call)
    /\ UNCHANGED <<op_call, sm, shutdown, inbox, batch, affiliates, notified, reg_state,
                   temp_data, tok, prev, ownerDelivered>>

\* DatabaseService.create_affiliate keeps the insert only when it commits
InsertIgnoringKeys(rows, phone, token, d) ==
    IF d = "ok"
    THEN rows \cup {[phone_number |-> phone, token |-> token, is_active |-> TRUE]}
    ELSE rows

Insert(rows, phone, token, d) ==
    IF d = "ok" /\ ~UniqueViolation(rows, phone, token)
    THEN rows \cup {[phone_number |-> phone, token |-> token, is_active |-> TRUE]}
    ELSE rows

\* token = generate_token(); affiliate_id = create_affiliate(phone, token)
AffCreate ==
    /\ pc = "aff_create"
    /\ \E t \in Tokens, d \in DbOutcomes :
          LET rows == Insert(affiliates, Sender, t, d)
              created == rows # affiliates
              call == Ev("db", "create_affiliate", Sender, t,
                         IF d = "ok" /\ ~created THEN "integrity" ELSE d)
          IN
          /\ affiliates' = rows
          /\ tok' = t
          /\ IF d = "exc"
             THEN /\ log' = log \o <<call, alert_critical_error("affiliate", NoNum)>>
                  /\ pc' = "msg_done"
             ELSE /\ log' = Append(log, call)
                  /\ pc' = IF created THEN "aff_reply" ELSE "msg_done"
    /\ UNCHANGED <<op_call, sm, shutdown, inbox, batch, notified, reg_state,
                   temp_data, prev, ownerDelivered>>

\* the registration success message to the new affiliate
AffReply ==
    /\ pc = "aff_reply"
    /\ \E f \in FormatOutcomes, ok \in SendResults :
          IF f = "exc"
          THEN /\ log' = log \o <<format_raised, alert_critical_error("affiliate", NoNum)>>
               /\ pc' = "msg_done"
          ELSE /\ log' = Append(log, Ev("send", Sender,
                                        "affiliate_registration_success", tok, Sent(ok)))
               /\ pc' = "aff_owner"
    /\ UNCHANGED <<op_call, sm, shutdown, inbox, batch, affiliates, notified, reg_state,
                   temp_data, tok, prev, ownerDelivered>>

\* the new-affiliate message to the owner group
AffOwner ==
    /\ pc = "aff_owner"
    /\ \E f \in FormatOutcomes, ok \in SendResults :
          IF f = "exc"
          THEN log' = log \o <<format_raised, alert_critical_error("affiliate", NoNum)>>
          ELSE log' = Append(log, Ev("send", Group, "new_affiliate_owner", tok, Sent(ok)))
    /\ pc' = "msg_done"
    /\ UNCHANGED <<op_call, sm, shutdown, inbox, batch, affiliates, notified, reg_state,
                   temp_data, tok, prev, ownerDelivered>>

\* _handle_api_key_registration_start
KeyStart ==
    /\ pc = "key_start"
    /\ reg_state' = Set(reg_state, Sender, "waiting_for_api_key")
    /\ \E ok \in SendResults :
          log' = Append(log, Ev("send", Sender, "enter_key", NoNum, Sent(ok)))
    /\ pc' = "msg_done"
    /\ UNCHANGED <<op_call, sm, shutdown, inbox, batch, affiliates, notified,
                   temp_data, tok, prev, ownerDelivered>>

\* db_service.save_api_key: stores the key and returns its id, None on a
\* database error
save_api_key(d) == IF d = "ok" THEN 1 ELSE NoNum

\* _handle_api_key_input with the scratch data not stored on success
KeyInputNoScratch ==
    /\ pc = "key_step"
    /\ Sender \in DOMAIN reg_state
    /\ reg_state[Sender] = "waiting_for_api_key"
    /\ \E d \in DbOutcomes, ok \in SendResults :
          LET key_id == save_api_key(d)
              call == Ev("db", "save_api_key", Str(Body), key_id, d)
          IN
          IF d = "exc"
          THEN /\ log' = log \o <<call, alert_critical_error("api_key_input", NoNum)>>
               /\ reg_state' = Pop(reg_state, Sender)
               /\ temp_data' = Pop(temp_data, Sender)
          ELSE IF key_id = NoNum
          THEN /\ log' = log \o <<call, Ev("send", Sender, "error_saving_key", NoNum, Sent(ok))>>
               /\ reg_state' = Pop(reg_state, Sender)
               /\ UNCHANGED temp_data
          ELSE /\ UNCHANGED temp_data
               /\ reg_state' = Set(reg_state, Sender, "waiting_for_merchant_code")
               /\ log' = log \o <<call, Ev("send", Sender, "enter_merchant_code", NoNum, Sent(ok))>>
    /\ pc' = "msg_done"
    /\ UNCHANGED <<op_call, sm, shutdown, inbox, batch, affiliates, notified,
                   tok, prev, ownerDelivered>>

\* _handle_api_key_registration_step in state waiting_for_api_key:
\* _handle_api_key_input
KeyInput ==
    /\ pc = "key_step"
    /\ Sender \in DOMAIN reg_state
    /\ reg_state[Sender] = "waiting_for_api_key"
    /\ \E d \in DbOutcomes, ok \in SendResults :
          LET key_id == save_api_key(d)
              call == Ev("db", "save_api_key", Str(Body), key_id, d)
          IN
          IF d = "exc"
          THEN /\ log' = log \o <<call, alert_critical_error("api_key_input", NoNum)>>
               /\ reg_state' = Pop(reg_state, Sender)
               /\ temp_data' = Pop(temp_data, Sender)
          ELSE IF key_id = NoNum
          THEN /\ log' = log \o <<call, Ev("send", Sender, "error_saving_key", NoNum, Sent(ok))>>
               /\ reg_state' = Pop(reg_state, Sender)
               /\ UNCHANGED temp_data
          ELSE /\ temp_data' = Set(temp_data, Sender, [key_id |-> key_id, key |-> Body])
               /\ reg_state' = Set(reg_state, Sender, "waiting_for_merchant_code")
               /\ log' = log \o <<call, Ev("send", Sender, "enter_merchant_code", NoNum, Sent(ok))>>
    /\ pc' = "msg_done"
    /\ UNCHANGED <<op_call, sm, shutdown, inbox, batch, affiliates, notified,
                   tok, prev, ownerDelivered>>

\* _handle_api_key_registration_step in state waiting_for_merchant_code:
\* _handle_merchant_code_input
MerchantCode ==
    /\ pc = "key_step"
    /\ Sender \in DOMAIN reg_state
    /\ reg_state[Sender] = "waiting_for_merchant_code"
    /\ \E d1 \in DbOutcomes, d2 \in DbOutcomes, t \in Tokens, ok \in SendResults :
          LET call1 == Ev("db", "save_merchant_code", Str(Body),
                          temp_data[Sender].key_id, d1)
              call2 == Ev("db", "save_token", None, temp_data[Sender].key_id, d2)
          IN
          IF Sender \notin DOMAIN temp_data
          THEN /\ log' = Append(log, Ev("send", Sender, "session_expired", NoNum, Sent(ok)))
               /\ reg_state' = Pop(reg_state, Sender)
               /\ UNCHANGED <<temp_data, tok>>
          ELSE /\ reg_state' = Pop(reg_state, Sender)
               /\ temp_data' = Pop(temp_data, Sender)
               /\ IF d1 = "exc"
                  THEN /\ log' = log \o <<call1, alert_critical_error("merchant_code_input", NoNum)>>
                       /\ UNCHANGED tok
                  ELSE IF d1 = "error"
                  THEN /\ log' = log \o <<call1, Ev("send", Sender, "error_saving_merchant_code", NoNum, Sent(ok))>>
                       /\ UNCHANGED tok
                  ELSE /\ tok' = t
                       /\ IF d2 = "exc"
                          THEN log' = log \o <<call1, call2, alert_critical_error("merchant_code_input", NoNum)>>
                          ELSE IF d2 = "error"
                          THEN log' = log \o <<call1, call2, Ev("send", Sender, "error_saving_token", NoNum, Sent(ok))>>
                          ELSE log' = log \o <<call1, call2, Ev("send", Sender, "registration_completed", t, Sent(ok))>>
    /\ pc' = "msg_done"
    /\ UNCHANGED <<op_call, sm, shutdown, inbox, batch, affiliates, notified,
                   prev, ownerDelivered>>

-----------------------------------------------------------------------------
(* services/message_handler.py: orders *)

Order == orders_table[Head(batch)]

\* process_new_orders: orders = get_unnotified_orders(); a database error
\* inside the query returns [], any other exception reaches the handler of
\* process_new_orders
process_new_orders ==
    /\ pc = "fetch"
    /\ \E d \in DbOutcomes :
          LET orders == IF d = "ok" THEN get_unnotified_orders(notified) ELSE <<>>
              call == Ev("db", "get_unnotified_orders", None, NoNum, d)
          IN
          /\ batch' = orders
          /\ log' = IF d = "exc"
                    THEN <<call, alert_database_error("orders")>>
                    ELSE <<call>>
          /\ pc' = IF orders # <<>> THEN "order" ELSE "wait"
    /\ UNCHANGED <<op_call, sm, shutdown, inbox, affiliates, notified, reg_state,
                   temp_data, tok, prev, ownerDelivered>>

\* _process_single_order: format the order, always notify the owner
OrderOwner ==
    /\ pc = "order"
    /\ \E f \in FormatOutcomes, ok \in SendResults :
          IF f = "exc"
          THEN /\ log' = <<format_raised, alert_critical_error("order", Order.id)>>
               /\ pc' = "order_done"
               /\ UNCHANGED ownerDelivered
          ELSE /\ log' = <<Ev("send", Group, "new_order_owner", Order.id, Sent(ok))>>
               /\ pc' = "order_aff"
               /\ ownerDelivered' = IF ok THEN ownerDelivered \cup {Order.id}
                                    ELSE ownerDelivered
    /\ UNCHANGED <<op_call, sm, shutdown, inbox, batch, affiliates, notified, reg_state,
                   temp_data, tok, prev>>

\* get_affiliate_by_token: the active row with that token, None on a
\* database error
get_affiliate_by_token_any(rows, token, d) ==
    IF d = "ok" THEN {r \in rows : r.token = token} ELSE {}

get_affiliate_by_token(rows, token, d) ==
    IF d = "ok" THEN ByToken(rows, token) ELSE {}

\* _process_single_order: if order.affiliate_token, notify the affiliate
OrderAffiliate ==
    /\ pc = "order_aff"
    /\ IF Order.affiliate_token = NoNum
       THEN /\ pc' = "order_mark"
            /\ UNCHANGED log
       ELSE \E d \in DbOutcomes, f \in FormatOutcomes, ok \in SendResults :
               LET found == get_affiliate_by_token(affiliates, Order.affiliate_token, d)
                   call == Ev("db", "get_affiliate_by_token", None, Order.affiliate_token, d)
               IN
               IF d = "exc"
               THEN /\ log' = log \o <<call, alert_critical_error("order", Order.id)>>
                    /\ pc' = "order_done"
               ELSE IF found # {} /\ f = "exc"
               THEN /\ log' = log \o <<call, format_raised,
                                        alert_critical_error("order", Order.id)>>
                    /\ pc' = "order_done"
               ELSE IF found # {}
               THEN /\ log' = log \o <<call,
                             Ev("send", (CHOOSE r \in found : TRUE).phone_number,
                                "new_order_affiliate", Order.id, Sent(ok))>>
                    /\ pc' = "order_mark"
               ELSE /\ log' = Append(log, call)
                    /\ pc' = "order_mark"
    /\ UNCHANGED <<op_call, sm, shutdown, inbox, batch, affiliates, notified, reg_state,
                   temp_data, tok, prev, ownerDelivered>>

\* mark_order_as_notified: UPDATE orders SET notified = TRUE WHERE id = %s
mark_order_as_notified_nowhere(flags, id, d) ==
    IF d = "ok" THEN [o \in DOMAIN flags |-> TRUE] ELSE flags

mark_order_as_notified(flags, id, d) ==
    IF d = "ok" THEN [flags EXCEPT ![id] = TRUE] ELSE flags

\* _process_single_order: mark the order; the returned boolean is not read
OrderMark ==
    /\ pc = "order_mark"
    /\ \E d \in DbOutcomes :
          LET call == Ev("db", "mark_order_as_notified", None, Order.id, d) IN
          /\ notified' = mark_order_as_notified(notified, Order.id, d)
          /\ log' = IF d = "exc"
                    THEN log \o <<call, alert_critical_error("order", Order.id)>>
                    ELSE Append(log, call)
    /\ pc' = "order_done"
    /\ UNCHANGED <<op_call, sm, shutdown, inbox, batch, affiliates, reg_state,
                   temp_data, tok, prev, ownerDelivered>>

\* the for loop left by the exception of one order
OrderNextAbort ==
    /\ pc = "order_done"
    /\ batch' = IF Events(log, "alert") # {} THEN <<>> ELSE Tail(batch)
    /\ pc' = IF batch' # <<>> THEN "order" ELSE "wait"
    /\ log' = <<>>
    /\ UNCHANGED <<op_call, sm, shutdown, inbox, affiliates, notified, reg_state,
                   temp_data, tok, prev, ownerDelivered>>

\* process_new_orders: the for loop moves to the next order
OrderNext ==
    /\ pc = "order_done"
    /\ batch' = Tail(batch)
    /\ pc' = IF Tail(batch) # <<>> THEN "order" ELSE "wait"
    /\ log' = <<>>
    /\ UNCHANGED <<op_call, sm, shutdown, inbox, affiliates, notified, reg_state,
                   temp_data, tok, prev, ownerDelivered>>

-----------------------------------------------------------------------------
(* The service *)

Next ==
    \/ signal_handler
    \/ LoopCheck
    \/ receive_messages
    \/ _process_single_message
    \/ MsgExcept
    \/ MsgNext
    \/ AffLookup
    \/ AffCreate
    \/ AffReply
    \/ AffOwner
    \/ KeyStart
    \/ KeyInput
    \/ MerchantCode
    \/ process_new_orders
    \/ OrderOwner
    \/ OrderAffiliate
    \/ OrderMark
    \/ OrderNext
    \/ Wait
    \/ LoopExcept
    \/ Cooldown

Spec == Init /\ [][Next]_vars

-----------------------------------------------------------------------------
(* The service on a database without unnotified orders: the order steps *)
(* are never enabled                                                     *)

InitMessages ==
    /\ op_call = NoCall
    /\ sm = NoSend
    /\ pc = "loop"
    /\ shutdown = FALSE
    /\ inbox = <<>>
    /\ batch = <<>>
    /\ affiliates \in InitialAffiliates
    /\ notified = [o \in Orders |-> TRUE]
    /\ reg_state = Empty
    /\ temp_data = Empty
    /\ tok = NoNum
    /\ log = <<>>
    /\ prev = NoSummary
    /\ ownerDelivered = {}

NextMessages ==
    \/ signal_handler
    \/ LoopCheck
    \/ receive_messages
    \/ _process_single_message
    \/ MsgExcept
    \/ MsgNext
    \/ AffLookup
    \/ AffCreate
    \/ AffReply
    \/ AffOwner
    \/ KeyStart
    \/ KeyInput
    \/ MerchantCode
    \/ process_new_orders
    \/ Wait
    \/ LoopExcept
    \/ Cooldown

SpecMessages == InitMessages /\ [][NextMessages]_vars

-----------------------------------------------------------------------------
(* The service while the transport delivers no message, started on any   *)
(* table affiliates                                                      *)

InitOrders ==
    /\ op_call = NoCall
    /\ sm = NoSend
    /\ pc = "loop"
    /\ shutdown = FALSE
    /\ inbox = <<>>
    /\ batch = <<>>
    /\ affiliates \in ValidTables
    /\ notified = [o \in Orders |-> FALSE]
    /\ reg_state = Empty
    /\ temp_data = Empty
    /\ tok = NoNum
    /\ log = <<>>
    /\ prev = NoSummary
    /\ ownerDelivered = {}

NextOrders ==
    \/ signal_handler
    \/ LoopCheck
    \/ ReceiveNothing
    \/ process_new_orders
    \/ OrderOwner
    \/ OrderAffiliate
    \/ OrderMark
    \/ OrderNext
    \/ Wait
    \/ LoopExcept
    \/ Cooldown

SpecOrders == InitOrders /\ [][NextOrders]_vars

-----------------------------------------------------------------------------
(* process_received_messages on a batch of two "go" messages of one      *)
(* sender, started on any table affiliates                               *)

GoBodies == {b \in Bodies : lower(strip(b)) = go}

InitGoTwice ==
    /\ op_call = NoCall
    /\ sm = NoSend
    /\ pc = "msg"
    /\ shutdown = FALSE
    /\ \E s \in Senders, b1 \in GoBodies, b2 \in GoBodies :
          inbox = << [source |-> s, data |-> TRUE, message |-> b1],
                     [source |-> s, data |-> TRUE, message |-> b2] >>
    /\ batch = <<>>
    /\ affiliates \in ValidTables
    /\ notified = [o \in Orders |-> FALSE]
    /\ reg_state = Empty
    /\ temp_data = Empty
    /\ tok = NoNum
    /\ log = <<>>
    /\ prev = NoSummary
    /\ ownerDelivered = {}

NextGoTwice ==
    \/ _process_single_message
    \/ AffLookup
    \/ AffCreate
    \/ AffReply
    \/ AffOwner
    \/ MsgNextTracked

SpecGoTwice == InitGoTwice /\ [][NextGoTwice]_vars

-----------------------------------------------------------------------------
(* The poll loop with the orders and a transport that delivers, from one  *)
(* sender, "go", a text no rule matches and a message without text        *)

LoopMessages ==
    {[source |-> "s1", data |-> TRUE, message |-> b] :
        b \in {go, <<"K", "1">>, NotText}}

ReceiveSome == Receive(SeqsUpTo(LoopMessages, MaxBatch))

NextLoop ==
    \/ signal_handler
    \/ LoopCheck
    \/ ReceiveSome
    \/ _process_single_message
    \/ MsgExcept
    \/ MsgNext
    \/ AffLookup
    \/ AffCreate
    \/ AffReply
    \/ AffOwner
    \/ process_new_orders
    \/ OrderOwner
    \/ OrderAffiliate
    \/ OrderMark
    \/ OrderNext
    \/ Wait
    \/ LoopExcept
    \/ Cooldown

SpecLoop == Init /\ [][NextLoop]_vars

\* every step of the thread of run_main_loop; the signal is not one
Thread ==
    \/ LoopCheck
    \/ ReceiveSome
    \/ _process_single_message
    \/ MsgExcept
    \/ MsgNext
    \/ AffLookup
    \/ AffCreate
    \/ AffReply
    \/ AffOwner
    \/ process_new_orders
    \/ OrderOwner
    \/ OrderAffiliate
    \/ OrderMark
    \/ OrderNext
    \/ Wait
    \/ LoopExcept
    \/ Cooldown

\* the thread keeps running: every call it makes returns (the transport and
\* the webhook by their timeouts)
SpecLoopFair == Init /\ [][NextLoop]_vars /\ WF_vars(Thread)

-----------------------------------------------------------------------------
(* process_received_messages on three messages of the admin: "New API    *)
(* key" and two texts that continue the credential conversation, started *)
(* in every state the conversation store can be in                       *)

\* texts that are neither blank, nor "go", nor the admin command
CredentialTexts ==
    {b \in Bodies \ {NotText} :
        strip(b) # <<>> /\ lower(strip(b)) # go /\ strip(b) # NewApiKey}

Scratch == [key_id |-> 1, key |-> <<"K", "1">>]

\* state and scratch data of the admin: none, waiting for the key (with or
\* without the scratch data of an interrupted conversation), waiting for the
\* merchant code
ConversationStores ==
    { [state |-> Empty, temp |-> Empty],
      [state |-> Set(Empty, Admin, "waiting_for_api_key"), temp |-> Empty],
      [state |-> Set(Empty, Admin, "waiting_for_api_key"),
       temp |-> Set(Empty, Admin, Scratch)],
      [state |-> Set(Empty, Admin, "waiting_for_merchant_code"),
       temp |-> Set(Empty, Admin, Scratch)] }

InitKeyFlow ==
    /\ op_call = NoCall
    /\ sm = NoSend
    /\ pc = "msg"
    /\ shutdown = FALSE
    /\ \E b1 \in CredentialTexts, b2 \in CredentialTexts :
          inbox = << [source |-> Admin, data |-> TRUE, message |-> NewApiKey],
                     [source |-> Admin, data |-> TRUE, message |-> b1],
                     [source |-> Admin, data |-> TRUE, message |-> b2] >>
    /\ batch = <<>>
    /\ affiliates = {}
    /\ notified = [o \in Orders |-> TRUE]
    /\ \E c \in ConversationStores :
          /\ reg_state = c.state
          /\ temp_data = c.temp
    /\ tok = NoNum
    /\ log = <<>>
    /\ prev = NoSummary
    /\ ownerDelivered = {}

NextKeyFlow ==
    \/ _process_single_message
    \/ KeyStart
    \/ KeyInput
    \/ MerchantCode
    \/ MsgNextConversation

SpecKeyFlow == InitKeyFlow /\ [][NextKeyFlow]_vars

-----------------------------------------------------------------------------
(* services/webhook_service.py *)

\* what one requests.post can do: answer 200, answer another status, raise
\* a RequestException, raise another exception
WebhookOutcomes == {"200", "status", "reqexc", "exc"}

WebhookPatterns == [1..WEBHOOK_RETRIES -> WebhookOutcomes]

\* the loop "for attempt in range(self.max_retries)" from iteration attempt
\* on; the backoff wait is in the handler of RequestException
RECURSIVE webhook_attempts(_, _, _, _, _)
webhook_attempts(N, outs, attempt, invocations, waits) ==
    IF attempt >= N
    THEN [ret |-> FALSE, invocations |-> invocations, waits |-> waits,
          raised |-> FALSE]
    ELSE IF outs[attempt + 1] = "200"
    THEN [ret |-> TRUE, invocations |-> invocations + 1, waits |-> waits,
          raised |-> FALSE]
    ELSE IF outs[attempt + 1] = "exc"
    THEN [ret |-> FALSE, invocations |-> invocations + 1, waits |-> waits,
          raised |-> TRUE]
    ELSE webhook_attempts(N, outs, attempt + 1, invocations + 1,
                          IF outs[attempt + 1] = "reqexc" /\ attempt < N - 1
                          THEN Append(waits, Pow2(attempt)) ELSE waits)

\* if not self.enabled or not self.webhook_url: return False
send_webhook(enabled, url, N, outs) ==
    IF ~enabled \/ ~url THEN NoResult ELSE webhook_attempts(N, outs, 0, 0, <<>>)

-----------------------------------------------------------------------------
(* services/alert_service.py: one call of an alert operation, for every  *)
(* outcome of the templates, the transport and the webhook               *)

AlertOps ==
    {"send_system_alert", "alert_database_error", "alert_signal_error",
     "alert_critical_error"}

\* the operation called: the first entry of the trace
Op == log[1].who

\* self.critical_logger.error(...)
critical_log(what) == Ev("critical_log", what, None, NoNum, "written")

\* if not signal_success
fallback_always(signal_success) == TRUE

fallback_needed(signal_success) == ~signal_success

InitAlert ==
    /\ op_call = NoCall
    /\ \E outs \in SendPatterns(MAX_RETRIES) :
          sm = [N |-> MAX_RETRIES, outs |-> outs, done |-> FALSE, res |-> NoResult]
    /\ pc = "alert"
    /\ shutdown = FALSE
    /\ inbox = <<>>
    /\ batch = <<>>
    /\ affiliates = {}
    /\ notified = [o \in Orders |-> FALSE]
    /\ reg_state = Empty
    /\ temp_data = Empty
    /\ tok = NoNum
    /\ \E op \in AlertOps : log = <<Ev("call", op, None, NoNum, "called")>>
    /\ prev = NoSummary
    /\ ownerDelivered = {}

\* send_system_alert: format_message('system_alert'); alert_signal_error
\* logs and goes to the webhook at once
AlertEnter ==
    /\ pc = "alert"
    /\ IF Op = "alert_signal_error"
       THEN /\ log' = Append(log, critical_log("signal_service_error"))
            /\ pc' = "alert_webhook"
       ELSE \E f \in FormatOutcomes :
               IF f = "exc"
               THEN /\ log' = Append(log, format_raised)
                    /\ pc' = "alert_caught"
               ELSE /\ pc' = "alert_primary"
                    /\ UNCHANGED log
    /\ UNCHANGED <<op_call, sm, shutdown, inbox, batch, affiliates, notified, reg_state,
                   temp_data, tok, prev, ownerDelivered>>

\* signal_success = self.signal_service.send_alert(formatted_message)
send_alert ==
    /\ pc = "alert_primary"
    /\ LET r == send_message(sm.N, sm.outs)
           sent == Ev("send", Admin, "system_alert", NoNum, Sent(r.ret))
       IN
       /\ sm' = [sm EXCEPT !.done = TRUE, !.res = r]
       /\ IF fallback_needed(r.ret)
          THEN /\ log' = log \o <<sent, critical_log("signal_alert_failed")>>
               /\ pc' = "alert_webhook"
          ELSE /\ log' = Append(log, sent)
               /\ pc' = "alert_end"
    /\ UNCHANGED <<op_call, shutdown, inbox, batch, affiliates, notified, reg_state,
                   temp_data, tok, prev, ownerDelivered>>

\* format_message('webhook_alert') and send_webhook; an exception is caught in
\* send_system_alert and leaves alert_signal_error
AlertWebhook ==
    /\ pc = "alert_webhook"
    /\ \E f \in FormatOutcomes, enabled \in BOOLEAN, outs \in WebhookPatterns :
          \* Settings.validate has passed: an enabled webhook has a URL
          LET r == send_webhook(enabled, enabled, WEBHOOK_RETRIES, outs)
              call(res) == Ev("webhook", "send_webhook", None, r.invocations, res)
              escapes == IF Op = "alert_signal_error"
                         THEN "alert_propagated" ELSE "alert_caught"
          IN
          IF f = "exc"
          THEN /\ log' = Append(log, format_raised)
               /\ pc' = escapes
          ELSE IF r.raised
          THEN /\ log' = Append(log, call("exc"))
               /\ pc' = escapes
          ELSE IF r.ret
          THEN /\ log' = Append(log, call("ok"))
               /\ pc' = "alert_end"
          ELSE /\ log' = IF Op = "alert_signal_error"
                         THEN Append(log, call("failed"))
                         ELSE log \o <<call("failed"), critical_log("both_failed")>>
               /\ pc' = "alert_end"
    /\ UNCHANGED <<op_call, sm, shutdown, inbox, batch, affiliates, notified, reg_state,
                   temp_data, tok, prev, ownerDelivered>>

\* send_system_alert: except Exception
AlertCaught ==
    /\ pc = "alert_caught"
    /\ log' = Append(log, critical_log("alert_service_error"))
    /\ pc' = "alert_end"
    /\ UNCHANGED <<op_call, sm, shutdown, inbox, batch, affiliates, notified, reg_state,
                   temp_data, tok, prev, ownerDelivered>>

\* the operation returns with nothing more written
AlertReturnSilent ==
    /\ pc = "alert_end"
    /\ pc' = "alert_returned"
    /\ UNCHANGED <<op_call, sm, shutdown, inbox, batch, affiliates, notified, reg_state,
                   temp_data, tok, log, prev, ownerDelivered>>

\* the operation returns; alert_critical_error logs the error first
AlertReturn ==
    /\ pc = "alert_end"
    /\ log' = IF Op = "alert_critical_error"
              THEN Append(log, critical_log("critical_error")) ELSE log
    /\ pc' = "alert_returned"
    /\ UNCHANGED <<op_call, sm, shutdown, inbox, batch, affiliates, notified, reg_state,
                   temp_data, tok, prev, ownerDelivered>>

NextAlert ==
    \/ AlertEnter
    \/ send_alert
    \/ AlertWebhook
    \/ AlertCaught
    \/ AlertReturn

SpecAlert == InitAlert /\ [][NextAlert]_vars

-----------------------------------------------------------------------------
(* One send_message call on its own, for every max_retries up to MaxN *)

InitSend ==
    /\ op_call = NoCall
    /\ \E N \in 0..MaxN : \E outs \in SendPatterns(N) :
          sm = [N |-> N, outs |-> outs, done |-> FALSE, res |-> NoResult]
    /\ pc = "loop"
    /\ shutdown = FALSE
    /\ inbox = <<>>
    /\ batch = <<>>
    /\ affiliates = {}
    /\ notified = [o \in Orders |-> FALSE]
    /\ reg_state = Empty
    /\ temp_data = Empty
    /\ tok = NoNum
    /\ log = <<>>
    /\ prev = NoSummary
    /\ ownerDelivered = {}

SendCall ==
    /\ ~sm.done
    /\ sm' = [sm EXCEPT !.done = TRUE, !.res = send_message(sm.N, sm.outs)]
    /\ UNCHANGED <<op_call, pc, shutdown, inbox, batch, affiliates, notified, reg_state,
                   temp_data, tok, log, prev, ownerDelivered>>

NextSend == SendCall

SpecSend == InitSend /\ [][NextSend]_vars

-----------------------------------------------------------------------------
(* Properties of send_message *)

SuccessAt(outs, N) == {i \in 1..N : outs[i] = "exit0"}

Min(S) == CHOOSE i \in S : \A j \in S : i <= j

\* C1: a finished send_message call with max_retries = N has invoked the
\* transport at most N times; it returned True exactly when some attempt exited
\* 0, and then the number of invocations is the index of the first such
\* attempt; it returned False only after exactly N invocations, none of which
\* exited 0; and it did not raise.
C1_SendBounded ==
    sm.done =>
        LET r == sm.res
            succ == SuccessAt(sm.outs, sm.N)
        IN /\ r.invocations <= sm.N
           /\ r.ret = (succ # {})
           /\ r.ret => r.invocations = Min(succ)
           /\ ~r.ret => r.invocations = sm.N
           /\ ~r.raised

\* a call with max_retries = 3 that timed out once and then succeeded
C1_Witness ==
    /\ sm.done
    /\ sm.N = 3
    /\ sm.outs[1] = "timeout"
    /\ sm.outs[2] = "exit0"
    /\ sm.res.ret
    /\ sm.res.invocations = 2

-----------------------------------------------------------------------------
(* Properties of the order notifier *)

OwnerSends(trace) ==
    {i \in Events(trace, "send") :
        trace[i].who = Group /\ trace[i].what = "new_order_owner"}

AffiliateSends(trace) ==
    {i \in Events(trace, "send") : trace[i].what = "new_order_affiliate"}

MarkCalls(trace) ==
    {i \in Events(trace, "db") : trace[i].who = "mark_order_as_notified"}

OrderAlerts(trace, id) ==
    {i \in Events(trace, "alert") :
        trace[i].who = "critical" /\ trace[i].what = "order" /\ trace[i].n = id}

\* C2 (as claimed): every order marked notified has had its owner
\* notification accepted by the transport at least once.
C2_NotifiedWasDelivered ==
    \A o \in Orders : notified[o] => o \in ownerDelivered

\* C3: the notified flag of an order never goes from true to false, and it
\* goes from false to true only in the mark step of _process_single_order
\* running for that order, after exactly one owner send for it has returned
\* and, when the token lookup found an active affiliate, after the affiliate
\* send has returned too.
C3_NotifiedOnlyForward ==
    [][\A o \in Orders :
          /\ notified[o] => notified'[o]
          /\ (~notified[o] /\ notified'[o]) =>
                /\ pc = "order_mark"
                /\ Head(batch) = o
                /\ Cardinality(OwnerSends(log)) = 1
                /\ \A i \in OwnerSends(log) : log[i].n = o
                /\ (\E i \in Events(log, "db") :
                        /\ log[i].who = "get_affiliate_by_token"
                        /\ log[i].res = "ok"
                        /\ ByToken(affiliates, log[i].n) # {})
                   => Cardinality(AffiliateSends(log)) = 1
      ]_vars

\* order 1 has just been marked after an owner and an affiliate notification
C3_Witness ==
    /\ pc = "order_done"
    /\ Head(batch) = 1
    /\ notified[1]
    /\ OwnerSends(log) # {}
    /\ AffiliateSends(log) # {}
    /\ \E i \in MarkCalls(log) : log[i].res = "ok"

\* an exception was raised somewhere while the handler ran, whether a
\* persistence method caught it ("error") or not ("exc")
ExceptionRaised(trace) ==
    \E i \in 1..Len(trace) : trace[i].res \in {"error", "exc"}

\* an exception left the try body of the handler
Failed(trace) ==
    \E i \in 1..Len(trace) : trace[i].res = "exc"

\* C4 (as claimed): when every send for an order succeeded and the
\* mark-as-notified write failed, an alert naming that order has been raised
\* and the order is still unnotified.
C4_MarkFailureAlerted ==
    (/\ pc = "order_done"
     /\ OwnerSends(log) # {}
     /\ \A i \in Events(log, "send") : log[i].res = "sent"
     /\ \E i \in MarkCalls(log) : log[i].res \in {"error", "exc"})
    => /\ OrderAlerts(log, Head(batch)) # {}
       /\ ~notified[Head(batch)]

C7_FetchFailureAlerted ==
    (/\ pc = "wait"
     /\ \E i \in Events(log, "db") :
           log[i].who = "get_unnotified_orders" /\ log[i].res \in {"error", "exc"})
    => /\ \E i \in Events(log, "alert") : log[i].who = "database"
       /\ batch = <<>>

-----------------------------------------------------------------------------
(* Properties of the affiliate registration *)

\* positions of the messages a handler sent to one sender
Replies(trace, s) == {i \in Events(trace, "send") : trace[i].who = s}

\* the second of two successive "go" messages of one sender has been handled
SecondGoHandled ==
    /\ pc = "msg_done"
    /\ Len(inbox) = 1
    /\ prev.source = Head(inbox).source

\* no persistence call of the handler failed (database error, exception or
\* unique-key violation) and no exception was raised
Clean(trace) ==
    \A i \in 1..Len(trace) : trace[i].res \notin {"error", "exc", "integrity"}

TwoRepliesOneAffiliate ==
    LET s == Head(inbox).source IN
    /\ Cardinality({r \in affiliates : r.phone_number = s}) = 1
    /\ Cardinality(Replies(prev.log, s)) = 1
    /\ Cardinality(Replies(log, s)) = 1
    /\ \A i \in Replies(prev.log, s), j \in Replies(log, s) :
          /\ log[j].n = prev.log[i].n
          /\ \E r \in affiliates : r.phone_number = s /\ r.token = log[j].n

-----------------------------------------------------------------------------
(* Properties of the message classification *)

GoTexts == { <<"g", "o">>, <<" ", "G", "O">> }
BlankTexts == { <<" ">> }
AffiliateFlow == {"aff_lookup", "aff_create", "aff_reply", "aff_owner"}

\* C10: the handler of a message is chosen by the first matching rule of:
\* "go" in any letter case -> affiliate flow; "New API key" from the admin ->
\* start of the credential flow; sender with a conversation state -> next
\* step of that flow; otherwise nothing is sent and nothing changes.  The
\* affiliate flow never touches the conversation store, and a handler once
\* chosen runs to the end of the message without another being entered.
C10_Classification ==
    [][LET m == Head(inbox)
           usable == m.data /\ m.message \notin BlankTexts \cup {NotText}
           isGo == usable /\ m.message \in GoTexts
           isStart == usable /\ ~isGo /\ m.message = NewApiKey /\ m.source = Admin
           isStep == usable /\ ~isGo /\ ~isStart /\ m.source \in DOMAIN reg_state
       IN
       /\ (pc = "msg" /\ pc' # pc) =>
             /\ isGo => pc' = "aff_lookup"
             /\ isStart => pc' = "key_start"
             /\ isStep => pc' = "key_step"
             /\ (~isGo /\ ~isStart /\ ~isStep /\ m.message # NotText) =>
                   /\ pc' = "msg_done"
                   /\ log' = <<>>
             /\ UNCHANGED <<reg_state, temp_data, affiliates, notified>>
       /\ (pc \in AffiliateFlow) =>
             /\ pc' \in AffiliateFlow \cup {"msg_done"}
             /\ UNCHANGED <<reg_state, temp_data>>
       /\ (pc \in {"key_start", "key_step"}) => pc' \in {pc, "msg_done"}
       /\ (pc = "msg_done" /\ log = <<>>) =>
             UNCHANGED <<reg_state, temp_data, affiliates, notified>>
      ]_vars

\* a "go" of the admin in the middle of the credential flow is in the
\* affiliate flow
C10_Witness ==
    /\ pc = "aff_lookup"
    /\ Head(inbox).source = Admin
    /\ Admin \in DOMAIN reg_state
    /\ reg_state[Admin] = "waiting_for_merchant_code"

-----------------------------------------------------------------------------
(* Properties of the credential conversation *)

\* C11: a "New API key" message of a sender other than the admin is ignored:
\* no handler is entered, nothing is sent, and neither the conversation store
\* nor the database changes; and a sender gets a conversation state where it
\* had none only in _handle_api_key_registration_start running for a message
\* of the admin, the state then being waiting_for_api_key.
C11_NonAdminIgnored ==
    [][LET m == Head(inbox) IN
       /\ (/\ pc = "msg" /\ pc' # pc
           /\ m.data /\ strip(m.message) = NewApiKey /\ m.source # Admin)
          => /\ pc' = "msg_done"
             /\ log' = <<>>
             /\ UNCHANGED <<reg_state, temp_data, affiliates, notified>>
       /\ \A s \in Senders :
             (s \notin DOMAIN reg_state /\ s \in DOMAIN reg_state') =>
                /\ s = Admin
                /\ pc = "key_start"
                /\ m.source = Admin
                /\ reg_state'[s] = "waiting_for_api_key"
      ]_vars

\* "New API key" of another sender has been passed over while the admin is
\* in the middle of a conversation
C11_Witness ==
    /\ pc = "msg_done"
    /\ log = <<>>
    /\ Head(inbox).source # Admin
    /\ Head(inbox).data
    /\ Head(inbox).message = NewApiKey
    /\ Admin \in DOMAIN reg_state

\* the positions of the calls of one persistence method in a trace
DbCalls(trace, method) == {i \in Events(trace, "db") : trace[i].who = method}

Confirmations(trace) ==
    {i \in Events(trace, "send") : trace[i].what = "registration_completed"}

\* the third of the three messages has been handled
ThirdHandled == pc = "msg_done" /\ Len(inbox) = 1

\* C12: when the admin has sent "New API key", a credential value and a
\* merchant code and every persistence call made for them succeeded, exactly
\* one confirmation has been sent, to the admin, carrying the token generated
\* in the last step; the credential was saved once and got an id, the merchant
\* code and the token were each saved once against that id; and the admin has
\* neither a conversation state nor scratch data.
C12_CredentialRoundTrip ==
    LET trace == prev.log \o log IN
    (ThirdHandled /\ \A i \in Events(trace, "db") : trace[i].res = "ok") =>
        /\ Cardinality(Confirmations(trace)) = 1
        /\ \A i \in Confirmations(trace) :
              /\ trace[i].who = Admin
              /\ trace[i].n \in Tokens
              /\ trace[i].n = tok
              /\ i = Len(trace)
        /\ Cardinality(DbCalls(trace, "save_api_key")) = 1
        /\ Cardinality(DbCalls(trace, "save_merchant_code")) = 1
        /\ Cardinality(DbCalls(trace, "save_token")) = 1
        /\ \A i \in DbCalls(trace, "save_api_key"),
              j \in DbCalls(trace, "save_merchant_code"),
              k \in DbCalls(trace, "save_token") :
              /\ trace[i].n # NoNum
              /\ trace[j].n = trace[i].n
              /\ trace[k].n = trace[i].n
              /\ i < j /\ j < k
        /\ Admin \notin DOMAIN reg_state
        /\ Admin \notin DOMAIN temp_data

\* the conversation ran to its confirmation although it started on the
\* scratch data of an interrupted one
C12_Witness ==
    /\ ThirdHandled
    /\ Confirmations(log) # {}
    /\ \A i \in Events(prev.log \o log, "db") : (prev.log \o log)[i].res = "ok"
    /\ Head(inbox).message # <<"K", "1">>

\* the step of the credential conversation that just ran ended the
\* conversation: full success, a failed write, lost scratch data, an exception
TerminalReplies ==
    {"registration_completed", "error_saving_key", "error_saving_merchant_code",
     "error_saving_token", "session_expired"}

Terminal(trace) ==
    /\ trace # <<>>
    /\ LET last == trace[Len(trace)] IN
       \/ last.op = "send" /\ last.what \in TerminalReplies
       \/ last.op = "alert" /\ last.what \in {"api_key_input", "merchant_code_input"}

\* C13 (as claimed): once a step of the credential conversation has returned
\* with a terminal outcome, the sender has neither a conversation state nor
\* scratch data.
C13_TerminalClearsBoth ==
    (pc = "msg_done" /\ Terminal(log)) =>
        /\ Head(inbox).source \notin DOMAIN reg_state
        /\ Head(inbox).source \notin DOMAIN temp_data

CriticalAlerts(trace) ==
    {i \in Events(trace, "alert") : trace[i].who = "critical"}

\* the second of the three messages has been handled
SecondHandled == pc = "msg_done" /\ Len(inbox) = 2

\* C14: when an exception was raised in a step of the credential
\* conversation, a critical alert has been raised and the sender has neither
\* state nor scratch data once the step has returned; and a sender waiting
\* for the key is, whatever the writes and the transport did, waiting for the
\* merchant code or without state after one flow-continuing message and
\* without state after two.
C14_FlowNeverStuck ==
    /\ (pc = "msg_done" /\ Failed(log)) =>
          /\ CriticalAlerts(log) # {}
          /\ Head(inbox).source \notin DOMAIN reg_state
          /\ Head(inbox).source \notin DOMAIN temp_data
    /\ SecondHandled =>
          \/ Admin \notin DOMAIN reg_state
          \/ /\ reg_state[Admin] = "waiting_for_merchant_code"
             /\ \A i \in 1..Len(log) : log[i].res \notin {"error", "exc"}
    /\ ThirdHandled => Admin \notin DOMAIN reg_state

\* the write of the merchant code raised, in the second step after the start
C14_Witness ==
    /\ ThirdHandled
    /\ \E i \in DbCalls(log, "save_merchant_code") : log[i].res = "exc"
    /\ CriticalAlerts(log) # {}
    /\ Admin \notin DOMAIN reg_state

-----------------------------------------------------------------------------
(* Properties of the alert operations *)

PrimarySends(trace) == {i \in Events(trace, "send") : trace[i].who = Admin}

WebhookCalls(trace) == Events(trace, "webhook")

C16_AlertsNeverRaise ==
    pc # "alert_propagated"

-----------------------------------------------------------------------------
(* Properties of the poll loop *)

MessageSteps ==
    {"msg", "msg_raise", "msg_done", "aff_lookup", "aff_create", "aff_reply",
     "aff_owner", "key_start", "key_step"}

OrderSteps == {"order", "order_aff", "order_mark", "order_done"}

\* C17: the message handler is entered only from a receive that returned a
\* non-empty batch; process_new_orders is entered from a receive that returned
\* nothing and from the end of the last message of a batch, with or without
\* alerts raised for it, and from nowhere else; and the wait at the end of
\* the iteration is reached only through process_new_orders.
C17_OrdersEveryIteration ==
    [][/\ (pc = "receive" /\ pc' # pc) =>
             pc' = IF inbox' # <<>> THEN "msg" ELSE "fetch"
       /\ (pc' \in MessageSteps /\ pc \notin MessageSteps) =>
             (pc = "receive" /\ inbox' # <<>>)
       /\ (pc \in MessageSteps /\ pc' \notin MessageSteps) =>
             (pc = "msg_done" /\ Len(inbox) = 1 /\ pc' = "fetch")
       /\ (pc = "msg_done" /\ Len(inbox) = 1 /\ pc' # pc) => pc' = "fetch"
       /\ (pc' = "fetch" /\ pc # "fetch") => pc \in {"receive", "msg_done"}
       /\ (pc = "fetch" /\ pc' # pc) =>
             /\ pc' \in {"order", "wait"}
             /\ DbCalls(log', "get_unnotified_orders") # {}
       /\ (pc' = "wait" /\ pc # "wait") => pc \in {"fetch", "order_done"}
      ]_vars

\* the last message of a batch ended in an alert and the orders come next
C17_Witness ==
    /\ pc = "msg_done"
    /\ Len(inbox) = 1
    /\ CriticalAlerts(log) # {}
    /\ Unnotified(notified) # {}

\* C18: an exception that leaves the try body of run_main_loop is followed by
\* a critical alert, then by the cooldown wait, then by the test of the loop
\* condition, which starts another iteration unless the shutdown signal has
\* come; and the loop ends only at that test, with the signal set.
C18_LoopSurvives ==
    /\ [][ /\ (pc' = "loop_except" /\ pc # "loop_except") =>
                 log'[Len(log')].op = "raise"
           /\ (pc = "loop_except" /\ pc' # pc) =>
                 /\ pc' = "cooldown"
                 /\ \E i \in CriticalAlerts(log') : log'[i].what = "main_loop"
           /\ (pc = "cooldown" /\ pc' # pc) => pc' = "loop"
           /\ (pc = "loop" /\ ~shutdown /\ pc' # pc) => pc' = "receive"
           /\ (pc' = "stopped" /\ pc # "stopped") => (pc = "loop" /\ shutdown)
          ]_vars
    /\ [](pc = "stopped" => shutdown)

\* the loop is in its cooldown after an alert, with no signal
C18_Witness ==
    /\ pc = "cooldown"
    /\ ~shutdown
    /\ \E i \in CriticalAlerts(log) : log[i].what = "main_loop"

\* C19: the signal only sets the flag and changes nothing else; the flag is
\* never reset; with the flag set the running iteration goes on as without
\* it (both batches lose their head only when that message or order is done,
\* and are empty at the end of the iteration), the loop stops only at the
\* test of its condition, no iteration starts, and the loop does stop.
C19_ShutdownAtBoundary ==
    /\ [][ /\ shutdown => shutdown'
           /\ (shutdown' # shutdown) =>
                 UNCHANGED <<op_call, sm, pc, inbox, batch, affiliates, notified,
                             reg_state, temp_data, tok, log, prev, ownerDelivered>>
           /\ (pc' = "stopped" /\ pc # "stopped") => (pc = "loop" /\ shutdown)
           /\ (shutdown /\ pc = "loop" /\ pc' # pc) => pc' = "stopped"
           /\ (shutdown /\ pc' = "receive") => pc = "receive"
           /\ (shutdown /\ inbox' # inbox) =>
                 (pc = "receive" \/ (pc = "msg_done" /\ inbox' = Tail(inbox)))
           /\ (shutdown /\ batch' # batch) =>
                 (pc = "fetch" \/ (pc = "order_done" /\ batch' = Tail(batch)))
          ]_vars
    /\ [](pc \in {"wait", "loop", "stopped"} => (inbox = <<>> /\ batch = <<>>))
    /\ (shutdown ~> pc = "stopped")

\* the signal has come while the first of two orders is being handled
C19_Witness ==
    /\ shutdown
    /\ pc = "order_aff"
    /\ Len(batch) = 2

Ascending(orders) ==
    \A i, j \in 1..Len(orders) :
        i < j => orders_table[orders[i]].created_at <= orders_table[orders[j]].created_at

\* C20: the batch of messages loses its head, and nothing else, when the
\* handling of that message is over, also when it ended in an alert, and the
\* next message follows; no order is handled while a message is left and no
\* message while an order is left; a fetched batch holds every unnotified
\* order once, in ascending creation time, and loses its head when that order
\* is done.
C20_ProcessingOrder ==
    /\ [][ /\ (inbox' # inbox) =>
                 (pc = "receive" \/ (pc = "msg_done" /\ inbox' = Tail(inbox)))
           /\ (pc = "msg_done" /\ Len(inbox) > 1 /\ pc' # pc) =>
                 (pc' = "msg" /\ inbox' = Tail(inbox))
           /\ (pc = "msg_raise" /\ pc' # pc) =>
                 (pc' = "msg_done" /\ CriticalAlerts(log') # {} /\ inbox' = inbox)
           /\ (batch' # batch) =>
                 \/ /\ pc = "fetch"
                    /\ Ascending(batch')
                    /\ {batch'[i] : i \in 1..Len(batch')} = Unnotified(notified)
                    /\ Len(batch') = Cardinality(Unnotified(notified))
                 \/ (pc = "order_done" /\ batch' = Tail(batch))
          ]_vars
    /\ [](pc \in OrderSteps \cup {"fetch"} => inbox = <<>>)
    /\ [](pc \in MessageSteps => batch = <<>>)

\* the first of two messages ended in an alert and the second is still due
C20_Witness ==
    /\ pc = "msg_done"
    /\ Len(inbox) = 2
    /\ CriticalAlerts(log) # {}
    /\ Head(inbox).message = NotText

-----------------------------------------------------------------------------
(* One receive_messages call on its own: the outcome of the transport      *)
(* process and the lines of its standard output                            *)

\* a line of the output: a JSON document (msg is its parsed value), text
\* that is not JSON, or a line of white space only
Lines ==
    [kind : {"json"}, msg : {[source |-> Admin, data |-> TRUE, message |-> go],
                             [source |-> "s1", data |-> FALSE, message |-> <<>>]}]
    \cup [kind : {"garbage", "blank"}, msg : {NoSummary}]

\* for line in ...: if line.strip(): try json.loads / except JSONDecodeError,
\* where the first line that fails to parse ends the loop
RECURSIVE parse_lines_abort(_, _, _)
parse_lines_abort(lines, messages, warnings) ==
    IF lines = <<>> \/ Head(lines).kind = "garbage"
    THEN [ret |-> messages, warnings |-> warnings, raised |-> FALSE]
    ELSE parse_lines_abort(Tail(lines),
                           IF Head(lines).kind = "json"
                           THEN Append(messages, Head(lines).msg) ELSE messages,
                           warnings)

\* for line in ...: if line.strip(): try json.loads / except JSONDecodeError
RECURSIVE parse_lines(_, _, _)
parse_lines(lines, messages, warnings) ==
    IF lines = <<>>
    THEN [ret |-> messages, warnings |-> warnings, raised |-> FALSE]
    ELSE LET line == Head(lines) IN
         IF line.kind = "blank" THEN parse_lines(Tail(lines), messages, warnings)
         ELSE IF line.kind = "json"
         THEN parse_lines(Tail(lines), Append(messages, line.msg), warnings)
         ELSE parse_lines(Tail(lines), messages, warnings + 1)

\* SignalService.receive_messages: the value returned, the warnings logged
\* and whether an exception leaves the method
receive_lines(outcome, lines) ==
    IF outcome = "exit0"
    THEN parse_lines(lines, <<>>, 0)
    ELSE [ret |-> <<>>, warnings |-> 0, raised |-> FALSE]

InitReceive ==
    /\ \E outcome \in Outcomes : \E lines \in SeqsUpTo(Lines, MaxLines) :
          op_call = [op |-> "receive_messages", outcome |-> outcome,
                     lines |-> lines, done |-> FALSE,
                     res |-> [ret |-> <<>>, warnings |-> 0, raised |-> FALSE]]
    /\ sm = NoSend
    /\ pc = "loop"
    /\ shutdown = FALSE
    /\ inbox = <<>>
    /\ batch = <<>>
    /\ affiliates = {}
    /\ notified = [o \in Orders |-> TRUE]
    /\ reg_state = Empty
    /\ temp_data = Empty
    /\ tok = NoNum
    /\ log = <<>>
    /\ prev = NoSummary
    /\ ownerDelivered = {}

ReceiveCall ==
    /\ op_call.op = "receive_messages"
    /\ ~op_call.done
    /\ op_call' = [op_call EXCEPT !.done = TRUE,
                                  !.res = receive_lines(op_call.outcome, op_call.lines)]
    /\ UNCHANGED <<sm, pc, shutdown, inbox, batch, affiliates, notified, reg_state,
                   temp_data, tok, log, prev, ownerDelivered>>

NextReceive == ReceiveCall

SpecReceive == InitReceive /\ [][NextReceive]_vars

-----------------------------------------------------------------------------
(* C21 *)

\* the positions of the JSON lines of a call's output
JsonAt(lines) == {i \in 1..Len(lines) : lines[i].kind = "json"}

\* the k-th smallest element of a set of positions
Nth(S, k) == CHOOSE i \in S : Cardinality({j \in S : j <= i}) = k

\* C21: receive_messages never raises; when the transport process exits
\* with 0 it returns the parsed value of every JSON line, in the order of
\* the lines, and logs one warning per line that is not JSON; when the
\* process exits non-zero, times out or fails otherwise it returns the
\* empty sequence.
C21_ReceiveNeverRaises ==
    op_call.done =>
        LET r == op_call.res
            lines == op_call.lines
            J == JsonAt(lines)
        IN /\ ~r.raised
           /\ op_call.outcome # "exit0" => r.ret = <<>>
           /\ op_call.outcome = "exit0" =>
                 /\ Len(r.ret) = Cardinality(J)
                 /\ \A k \in 1..Len(r.ret) : r.ret[k] = lines[Nth(J, k)].msg
                 /\ r.warnings = Cardinality({i \in 1..Len(lines) :
                                                 lines[i].kind = "garbage"})

\* a line that is not JSON stands between two JSON lines, and both are returned
C21_Witness ==
    /\ op_call.done
    /\ op_call.outcome = "exit0"
    /\ Len(op_call.lines) = 3
    /\ op_call.lines[1].kind = "json"
    /\ op_call.lines[2].kind = "garbage"
    /\ op_call.lines[3].kind = "json"
    /\ op_call.lines[1] # op_call.lines[3]
    /\ Len(op_call.res.ret) = 2

-----------------------------------------------------------------------------
(* Startup: SignalAutomationApp.run up to the first test of the loop       *)
(* condition, and its return                                               *)

\* required = [...]
Required == {"SIGNAL_NUMBER", "SIGNAL_GROUP_ID", "AFFILIATE_LINK",
             "ADMIN_PHONE_NUMBER", "DB_PASSWORD"}

\* Settings.validate with the webhook test left out
validate_required_only(cfg) == cfg.missing = {}

\* Settings.validate: TRUE when it returns, FALSE when it raises ValueError
validate(cfg) ==
    /\ cfg.missing = {}
    /\ ~(cfg.webhook_enabled /\ ~cfg.webhook_url)

InitStartup ==
    /\ \E missing \in SUBSET Required : \E enabled, url \in BOOLEAN :
       \E db \in {"ok", "fail"} :
          op_call = [op |-> "run", missing |-> missing, webhook_enabled |-> enabled,
                     webhook_url |-> url, db |-> db, initialized |-> FALSE,
                     done |-> FALSE, exit_code |-> NoNum]
    /\ sm = NoSend
    /\ pc = "run"
    /\ shutdown = FALSE
    /\ inbox = <<>>
    /\ batch = <<>>
    /\ affiliates = {}
    /\ notified = [o \in Orders |-> TRUE]
    /\ reg_state = Empty
    /\ temp_data = Empty
    /\ tok = NoNum
    /\ log = <<>>
    /\ prev = NoSummary
    /\ ownerDelivered = {}

\* initialize_services: validate, the constructors, _test_system_connectivity
\* (the database test raises on failure; test_alert_systems posts a test
\* message to the webhook when it is enabled); every exception returns False
initialize_services ==
    /\ pc = "run"
    /\ LET ok == validate(op_call) /\ op_call.db = "ok"
       IN /\ pc' = IF ok THEN "initialized" ELSE "init_failed"
          /\ op_call' = [op_call EXCEPT !.initialized = ok]
          /\ IF ok /\ op_call.webhook_enabled
             THEN \E delivered \in BOOLEAN :
                     log' = Append(log, Ev("webhook", "test", None, NoNum,
                                           Sent(delivered)))
             ELSE UNCHANGED log
    /\ UNCHANGED <<sm, shutdown, inbox, batch, affiliates, notified, reg_state,
                   temp_data, tok, prev, ownerDelivered>>

\* if not self.initialize_services(): return 1 (and finally: cleanup)
run_failed ==
    /\ pc = "init_failed"
    /\ pc' = "exited"
    /\ op_call' = [op_call EXCEPT !.done = TRUE, !.exit_code = 1]
    /\ UNCHANGED <<sm, shutdown, inbox, batch, affiliates, notified, reg_state,
                   temp_data, tok, log, prev, ownerDelivered>>

\* send_system_alert("... started successfully"); run_main_loop()
startup_alert ==
    /\ pc = "initialized"
    /\ pc' = "loop"
    /\ log' = Append(log, Ev("alert", "system", "started", NoNum, "raised"))
    /\ UNCHANGED <<op_call, sm, shutdown, inbox, batch, affiliates, notified,
                   reg_state, temp_data, tok, prev, ownerDelivered>>

\* send_system_alert("... shutting down"); return 0 (and finally: cleanup)
run_returned ==
    /\ pc = "stopped"
    /\ op_call.op = "run"
    /\ pc' = "exited"
    /\ log' = Append(log, Ev("alert", "system", "shutting_down", NoNum, "raised"))
    /\ op_call' = [op_call EXCEPT !.done = TRUE, !.exit_code = 0]
    /\ UNCHANGED <<sm, shutdown, inbox, batch, affiliates, notified, reg_state,
                   temp_data, tok, prev, ownerDelivered>>

NextStartup ==
    \/ signal_handler
    \/ initialize_services
    \/ run_failed
    \/ startup_alert
    \/ LoopCheck
    \/ run_returned

SpecStartup == InitStartup /\ [][NextStartup]_vars

-----------------------------------------------------------------------------
(* C22 *)

\* C22: with a required setting absent, or the webhook enabled without a
\* URL, initialize_services returns false, run returns 1, the loop
\* condition is never tested, no iteration starts, and nothing is sent
\* (no startup alert, no webhook test, no other message).
C22_InvalidConfigStops ==
    (op_call.missing # {} \/ (op_call.webhook_enabled /\ ~op_call.webhook_url)) =>
        /\ pc \in {"run", "init_failed", "exited"}
        /\ ~op_call.initialized
        /\ log = <<>>
        /\ pc = "exited" => op_call.exit_code = 1
        /\ op_call.done => pc = "exited"

\* run has returned for a configuration whose only fault is the webhook URL
C22_Witness ==
    /\ pc = "exited"
    /\ op_call.missing = {}
    /\ op_call.webhook_enabled
    /\ ~op_call.webhook_url
    /\ op_call.db = "ok"
    /\ op_call.exit_code = 1

-----------------------------------------------------------------------------
(* C23 *)

\* C23: in a finished send_message call with max_retries = N the i-th wait
\* (counted from 0) lasts 2^i and follows failed attempt i; each wait is
\* twice the one before; a call that succeeded has waited once per failed
\* attempt before the success and not after it; a call that failed on all N
\* attempts has waited N - 1 times, so not after the final attempt.
C23_BackoffDoubles ==
    sm.done =>
        LET r == sm.res
            w == sm.res.waits
        IN /\ \A i \in 1..Len(w) : w[i] = 2 ^ (i - 1) /\ sm.outs[i] # "exit0"
           /\ \A i \in 1..(Len(w) - 1) : w[i + 1] = 2 * w[i]
           /\ r.ret => Len(w) = r.invocations - 1
           /\ ~r.ret => Len(w) = IF sm.N = 0 THEN 0 ELSE sm.N - 1

\* three failed attempts of three: waits of 1 and 2, none after the last
C23_Witness ==
    /\ sm.done
    /\ sm.N = 3
    /\ ~sm.res.ret
    /\ sm.res.invocations = 3
    /\ sm.res.waits = <<1, 2>>

-----------------------------------------------------------------------------
(* C24 *)

\* C24: when the handling of a message has ended after a create_affiliate
\* call that failed on a unique-key violation, nothing was sent to anyone
\* and no alert was raised; when it ended after a create_affiliate call
\* that failed in any other way, a critical alert was raised.
C24_CreateFailure ==
    (pc = "msg_done" /\ DbCalls(log, "create_affiliate") # {}) =>
        LET c == log[CHOOSE i \in DbCalls(log, "create_affiliate") : TRUE]
        IN /\ c.res = "integrity" =>
                 /\ Events(log, "send") = {}
                 /\ Events(log, "alert") = {}
           /\ c.res \in {"error", "exc"} => CriticalAlerts(log) # {}

-----------------------------------------------------------------------------
(* C25 *)

\* the head of the batch comes from a sender with a conversation state and
\* carries a text that is not empty after stripping
TextInFlow ==
    /\ inbox # <<>>
    /\ Head(inbox).source \in DOMAIN reg_state
    /\ Head(inbox).data
    /\ Head(inbox).message # NotText
    /\ strip(Head(inbox).message) # <<>>

\* the step of the credential flow hands the text of the message to the
\* write of its state: save_api_key(text), save_merchant_code(key id, text)
TextWritten ==
    (pc = "key_step" /\ pc' # pc) =>
        LET method == IF reg_state[Sender] = "waiting_for_api_key"
                      THEN "save_api_key" ELSE "save_merchant_code"
        IN /\ Cardinality(DbCalls(log', method)) = 1
           /\ \A i \in DbCalls(log', method) :
                 /\ log'[i].what = Str(strip(Head(inbox).message))
                 /\ log'[i].res = "ok" /\ method = "save_api_key" =>
                       temp_data'[Sender].key = strip(Head(inbox).message)
                 /\ method = "save_merchant_code" =>
                       log'[i].n = temp_data[Sender].key_id

\* C25 as stated: every message with a text from a sender holding a
\* conversation state goes to the step of the credential flow, whatever the
\* text, and the step hands the text to the persistence write of the state.
C25_AnyTextIsCredential ==
    [][ /\ (pc = "msg" /\ pc' # pc /\ TextInFlow) => pc' = "key_step"
        /\ TextWritten ]_vars

\* C25, amended: a message from a sender holding a conversation state whose
\* stripped text is neither "go" in any letter case nor, from the admin,
\* exactly "New API key" goes to the step of the credential flow, and the
\* step hands the stripped text to save_api_key in state
\* waiting_for_api_key and to save_merchant_code, with the key id of the
\* scratch data, in state waiting_for_merchant_code.
C25_OtherTextIsCredential ==
    [][ /\ (/\ pc = "msg" /\ pc' # pc /\ TextInFlow
            /\ lower(strip(Head(inbox).message)) # go
            /\ ~(strip(Head(inbox).message) = NewApiKey /\ Head(inbox).source = Admin))
           => pc' = "key_step"
        /\ TextWritten ]_vars

\* a text that differs from the command only in letter case was stored as
\* the credential value, and the merchant code is awaited
C25_Witness ==
    /\ pc = "msg_done"
    /\ \E i \in DbCalls(log, "save_api_key") :
          log[i].what = "new api key" /\ log[i].res = "ok"
    /\ Sender \in DOMAIN reg_state
    /\ reg_state[Sender] = "waiting_for_merchant_code"
    /\ temp_data[Sender].key = lower(NewApiKey)

-----------------------------------------------------------------------------
(* C26 *)

\* the writes of the credential flow and the retry prompt sent for each
CredentialWrites == {"save_api_key", "save_merchant_code", "save_token"}

RetryPrompt(method) ==
    CASE method = "save_api_key" -> "error_saving_key"
      [] method = "save_merchant_code" -> "error_saving_merchant_code"
      [] method = "save_token" -> "error_saving_token"

\* writes of the credential flow that reported failure (returned None or False)
FailedWrites(trace) ==
    {i \in Events(trace, "db") :
        trace[i].who \in CredentialWrites /\ trace[i].res = "error"}

\* C26: when a step of the credential flow has returned after one of its
\* writes reported failure, exactly one message was sent in the step, to the
\* sender, and it is the retry prompt of the failed write; it was sent after
\* the failed write and no write followed (the flow did not advance); no
\* confirmation was sent; and the sender has no conversation state.  A
\* sender without a conversation state gets one only by the handler of
\* "New API key".
C26_FailedWriteAborts ==
    /\ [](  (pc = "msg_done" /\ FailedWrites(log) # {}) =>
              /\ Cardinality(FailedWrites(log)) = 1
              /\ Cardinality(Events(log, "send")) = 1
              /\ Confirmations(log) = {}
              /\ Sender \notin DOMAIN reg_state
              /\ \A f \in FailedWrites(log) :
                    /\ \A i \in Events(log, "db") : i <= f
                    /\ \A i \in Events(log, "send") :
                          /\ i > f
                          /\ log[i].who = Sender
                          /\ log[i].what = RetryPrompt(log[f].who)  )
    /\ [][ \A s \in Senders :
              (s \notin DOMAIN reg_state /\ s \in DOMAIN reg_state') =>
                 (pc = "key_start" /\ s = Sender /\ s = Admin
                  /\ strip(Head(inbox).message) = NewApiKey) ]_vars

\* the write of the token reported failure after the two writes before it
\* had succeeded
C26_Witness ==
    /\ pc = "msg_done"
    /\ \E i \in DbCalls(log, "save_token") : log[i].res = "error"
    /\ \E i \in Events(log, "send") : log[i].what = "error_saving_token"
    /\ Sender \notin DOMAIN reg_state

-----------------------------------------------------------------------------
(* C27 *)

\* a parsed item without a usable text: no dataMessage, a message that is
\* not a string (null among them), or a message empty after stripping
Malformed(m) ==
    \/ ~m.data
    \/ m.message = NotText
    \/ strip(m.message) = <<>>

\* C27: a parsed item without a usable text is ignored: its handling ends at
\* once with nothing sent, written or alerted and with the conversation
\* store and the tables unchanged.
C27_MalformedIgnored ==
    [][ (pc = "msg" /\ pc' # pc /\ Malformed(Head(inbox))) =>
           /\ pc' = "msg_done"
           /\ log' = <<>>
           /\ UNCHANGED <<reg_state, temp_data, affiliates, notified>> ]_vars

-----------------------------------------------------------------------------
(* One send_webhook call on its own, for every max_retries up to MaxN *)

InitWebhook ==
    /\ \E enabled, url \in BOOLEAN : \E N \in 0..MaxN :
       \E outs \in [1..N -> WebhookOutcomes] :
          op_call = [op |-> "send_webhook", enabled |-> enabled, url |-> url,
                     N |-> N, outs |-> outs, done |-> FALSE, res |-> NoResult]
    /\ sm = NoSend
    /\ pc = "loop"
    /\ shutdown = FALSE
    /\ inbox = <<>>
    /\ batch = <<>>
    /\ affiliates = {}
    /\ notified = [o \in Orders |-> TRUE]
    /\ reg_state = Empty
    /\ temp_data = Empty
    /\ tok = NoNum
    /\ log = <<>>
    /\ prev = NoSummary
    /\ ownerDelivered = {}

WebhookCall ==
    /\ op_call.op = "send_webhook"
    /\ ~op_call.done
    /\ op_call' = [op_call EXCEPT
                      !.done = TRUE,
                      !.res = send_webhook(op_call.enabled, op_call.url,
                                           op_call.N, op_call.outs)]
    /\ UNCHANGED <<sm, pc, shutdown, inbox, batch, affiliates, notified, reg_state,
                   temp_data, tok, log, prev, ownerDelivered>>

NextWebhook == WebhookCall

SpecWebhook == InitWebhook /\ [][NextWebhook]_vars

-----------------------------------------------------------------------------
(* C28 *)

\* C28: a finished send_webhook call has made no request and returned false
\* when the webhook is not enabled or has no URL; otherwise it has made at
\* most max_retries requests, has returned true exactly at the first 200
\* response, and has waited 2^i between failed attempt i (counted from 0)
\* and attempt i + 1.
C28_WebhookRetries ==
    op_call.done =>
        LET r == op_call.res
            w == op_call.res.waits
        IN /\ (~op_call.enabled \/ ~op_call.url) =>
                 r.invocations = 0 /\ ~r.ret /\ w = <<>>
           /\ (op_call.enabled /\ op_call.url) =>
                 /\ r.invocations <= op_call.N
                 /\ r.ret =>
                       /\ op_call.outs[r.invocations] = "200"
                       /\ \A i \in 1..(r.invocations - 1) : op_call.outs[i] # "200"
                 /\ Len(w) = IF r.invocations = 0 THEN 0 ELSE r.invocations - 1
                 /\ \A i \in 1..Len(w) : w[i] = 2 ^ (i - 1)

-----------------------------------------------------------------------------
(* C29 *)

\* the lines alert_critical_error itself writes to the critical log
ErrorLines(trace) ==
    {i \in Events(trace, "critical_log") : trace[i].who = "critical_error"}

-----------------------------------------------------------------------------
(* C30 *)

\* C30: only the admin ever holds a conversation state or scratch data, and
\* while a message of another sender is handled the conversation store does
\* not change.
C30_StoreIsAdminOnly ==
    /\ [](DOMAIN reg_state \cup DOMAIN temp_data \subseteq {Admin})
    /\ [][ (inbox # <<>> /\ Sender # Admin) => UNCHANGED <<reg_state, temp_data>> ]_vars

\* a sender other than the admin has sent "New API key" while the admin
\* waits for the merchant code; the message is done and the store holds the
\* admin alone
C30_Witness ==
    /\ pc = "msg_done"
    /\ Sender # Admin
    /\ strip(Head(inbox).message) = NewApiKey
    /\ DOMAIN reg_state = {Admin}
    /\ DOMAIN temp_data = {Admin}
    /\ reg_state[Admin] = "waiting_for_merchant_code"

-----------------------------------------------------------------------------
(* C31 *)

\* C31: a sender has scratch data only while its conversation state is
\* waiting_for_merchant_code: none for a sender without state or waiting
\* for the key.
C31_ScratchOnlyWithMerchantState ==
    \A s \in DOMAIN temp_data :
        /\ s \in DOMAIN reg_state
        /\ reg_state[s] = "waiting_for_merchant_code"

-----------------------------------------------------------------------------
(* C32 *)

\* C32: a sender waiting for the merchant code has scratch data holding a
\* credential id, and the session-expired reply of the merchant-code step
\* is never sent.
C32_MerchantStateHasScratch ==
    /\ \A s \in DOMAIN reg_state :
          reg_state[s] = "waiting_for_merchant_code" =>
             /\ s \in DOMAIN temp_data
             /\ temp_data[s].key_id # NoNum
    /\ \A i \in Events(log, "send") : log[i].what # "session_expired"

\* the merchant-code step has run and made its write against the stored
\* credential id
C32_Witness ==
    /\ pc = "msg_done"
    /\ \E i \in DbCalls(log, "save_merchant_code") : log[i].n = 1
    /\ Events(log, "send") # {}
    /\ Sender \notin DOMAIN reg_state

-----------------------------------------------------------------------------
(* C33 *)

\* the notifications of order o in a trace
OrderSends(trace, o) ==
    {i \in OwnerSends(trace) \cup AffiliateSends(trace) : trace[i].n = o}

Fetched(orders) == {orders[i] : i \in 1..Len(orders)}

\* C33: an order that is notified is in no batch a fetch returns, and no
\* owner or affiliate notification is sent for it from then on; a batch
\* holds no order twice, only its head is being handled and is not yet notified
\* while its notifications are due, the orders behind the head are not
\* notified, and when the head is done the batch loses exactly that head and
\* the next order, if any, is handled.
C33_NotifiedNeverAgain ==
    /\ [][ /\ \A o \in Orders :
                 notified[o] =>
                    /\ (batch' # batch) => o \notin Fetched(batch')
                    /\ \A i \in OrderSends(log', o) :
                          i <= Len(log) /\ log[i] = log'[i]
           /\ (pc' = "order" /\ pc # "order") =>
                 /\ pc \in {"fetch", "order_done"}
                 /\ batch' # <<>>
           /\ (pc = "order_done" /\ pc' # pc) =>
                 /\ batch' = Tail(batch)
                 /\ pc' = IF batch' # <<>> THEN "order" ELSE "wait"
           /\ (batch' # batch) => pc \in {"fetch", "order_done"}
          ]_vars
    /\ [](\A i, j \in 1..Len(batch) : batch[i] = batch[j] => i = j)
    /\ [](\A i \in 2..Len(batch) : ~notified[batch[i]])
    /\ [](pc \in {"order", "order_aff", "order_mark"} => ~notified[Head(batch)])

\* a later iteration has fetched order 1 alone: order 2 was marked in an
\* earlier one, order 1 was not
C33_Witness ==
    /\ pc = "order"
    /\ batch = <<1>>
    /\ notified[2]
    /\ ~notified[1]

-----------------------------------------------------------------------------
(* The poll loop with persistence that eventually succeeds: a query that   *)
(* is tried again and again does not fail every time                       *)

\* get_unnotified_orders returns the rows
FetchOk ==
    /\ process_new_orders
    /\ \A i \in DbCalls(log', "get_unnotified_orders") : log'[i].res = "ok"

\* get_affiliate_by_token, where it is called, returns the row or None
LookupOk ==
    /\ OrderAffiliate
    /\ \A i \in DbCalls(log', "get_affiliate_by_token") : log'[i].res = "ok"

\* mark_order_as_notified commits its UPDATE
MarkOk ==
    /\ OrderMark
    /\ \A i \in MarkCalls(log') : log'[i].res = "ok"

SpecLoopLive ==
    /\ Init
    /\ [][NextLoop]_vars
    /\ WF_vars(Thread)
    /\ SF_vars(FetchOk)
    /\ SF_vars(LookupOk)
    /\ SF_vars(MarkOk)

-----------------------------------------------------------------------------
(* C34 *)

\* C34: while the loop keeps iterating and the persistence reads and the
\* mark write eventually succeed, every order that is not notified is
\* eventually marked notified, unless the shutdown signal comes first,
\* whatever the transport does.
C34_EveryOrderMarked ==
    \A o \in Orders : (~notified[o]) ~> (notified[o] \/ shutdown)

=============================================================================
